---------------------------- MODULE Spec2Model ----------------------------
(***************************************************************************)
(* A model of the tda-sdk client (src/src/lib.rs, params.rs, responses.rs):*)
(* the Client and its access-token slot, the five endpoint methods, the    *)
(* AccessToken conversion and expiry check, the query built from each      *)
(* parameter struct, the serde decoders of the response schemas, and the   *)
(* token persistence helpers of the test module.                           *)
(*                                                                         *)
(* Encodings.  Option<T>: None is <<>>, Some(x) is <<x>>.  A JSON value is  *)
(* a pair <<kind, payload>>.  A response body is <<"json", j>> (the text of *)
(* the JSON value j) or <<"raw", s>> (text that is not JSON).  Rust strings *)
(* are TLA+ strings, except the scope string, which is split by the code   *)
(* and is therefore a sequence of one-character strings.                   *)
(***************************************************************************)
EXTENDS Integers, Sequences, FiniteSets, TLC

VARIABLES
    client,   \* the Client: [access_token, client_id, refresh_token]
    now,      \* the wall clock, Utc::now() in milliseconds
    held,     \* the AccessToken the caller holds (result of .into()), or None
    file,     \* contents of TOKEN_FILE_PATH, None when it does not exist
    last      \* record of the most recent operation and its outcome

vars == <<client, now, held, file, last>>

---------------------------------------------------------------------------
(* Bounds of the model *)

\* the clock advances in steps of TickStep milliseconds, up to MaxNow
TickStep == 500
MaxNow == 500
\* the clock range of the token specification
MaxTokNow == 2000
\* largest expires_in (seconds) of a token-exchange response
MaxLifetime == 2
\* longest scope string (characters) of the token specification
MaxScopeLen == 5

---------------------------------------------------------------------------
(* Option, Result *)

None == <<>>
Some(x) == <<x>>

Ok(v) == <<"Ok", v>>
Err(e) == <<"Err", e>>
Panic(msg) == <<"panic", msg>>

\* ClientError
NotHttpOk(status, body) == <<"NotHttpOk", status, body>>
ParseResponse == <<"ParseResponse">>
ReadResponse == <<"ReadResponse">>

---------------------------------------------------------------------------
(* JSON values *)

JStr(s) == <<"string", s>>
JNum(n) == <<"number", n>>
\* a number with a fractional part (n + 1/2)
JFloat(n) == <<"float", n>>
JBool(b) == <<"bool", b>>
JArr(seq) == <<"array", seq>>
JObj(f) == <<"object", f>>
JNull == <<"null", 0>>

JsonBody(j) == <<"json", j>>
RawBody(s) == <<"raw", s>>

---------------------------------------------------------------------------
(* The response schemas of responses.rs.  A type is a tuple: <<"String">>,  *)
(* <<"i64">>, <<"usize">>, <<"f64">>, <<"bool">>, <<"Option", t>>,           *)
(* <<"Vec", t>>, <<"struct", name>>, <<"untagged", name>>.  Fields(name)    *)
(* maps each wire key of a struct to the type of its field.                *)

T_String == <<"String">>
T_i64 == <<"i64">>
T_usize == <<"usize">>
T_f64 == <<"f64">>
T_bool == <<"bool">>
T_Option(t) == <<"Option", t>>
T_Vec(t) == <<"Vec", t>>
T_Struct(n) == <<"struct", n>>
T_Untagged(n) == <<"untagged", n>>

AccessTokenResponseFields ==
    [access_token |-> T_String, scope |-> T_String, expires_in |-> T_i64]

GetPriceHistoryResponseFields ==
    [candles |-> T_Vec(T_Struct("Candle")), empty |-> T_bool, symbol |-> T_String]

CandleFields ==
    [close |-> T_f64, datetime |-> T_usize, high |-> T_f64, low |-> T_f64,
     open |-> T_f64, volume |-> T_i64]

MoverFields ==
    [change |-> T_f64, description |-> T_String, direction |-> T_String,
     last |-> T_f64, symbol |-> T_String, totalVolume |-> T_i64]

AccountFields ==
    [securitiesAccount |-> T_Untagged("SecuritiesAccount")]

MarginAccountFields ==
    [type |-> T_String, accountId |-> T_String, roundTrips |-> T_usize,
     isDayTrader |-> T_bool, isClosingOnlyRestricted |-> T_bool,
     initialBalances |-> T_Struct("InitialBalances"),
     currentBalances |-> T_Struct("CurrentBalances"),
     projectedBalances |-> T_Struct("ProjectedBalances")]

InitialBalancesFields ==
    [accountValue |-> T_f64, accruedInterest |-> T_f64,
     availableFundsNonMarginableTrade |-> T_Option(T_f64),
     bondValue |-> T_f64, buyingPower |-> T_Option(T_f64),
     cashAvailableForTrading |-> T_f64,
     cashAvailableForWithdrawal |-> T_Option(T_f64),
     cashBalance |-> T_f64, cashDebitCallValue |-> T_Option(T_f64),
     cashReceipts |-> T_f64, dayTradingBuyingPower |-> T_Option(T_f64),
     dayTradingBuyingPowerCall |-> T_Option(T_f64),
     dayTradingEquityCall |-> T_Option(T_f64), equity |-> T_Option(T_f64),
     equityPercentage |-> T_Option(T_f64), isInCall |-> T_bool,
     liquidationValue |-> T_f64, longMarginValue |-> T_Option(T_f64),
     longOptionMarketValue |-> T_f64, longStockValue |-> T_Option(T_f64),
     maintenanceCall |-> T_Option(T_f64),
     maintenanceRequirement |-> T_Option(T_f64), margin |-> T_Option(T_f64),
     marginBalance |-> T_Option(T_f64), marginEquity |-> T_Option(T_f64),
     moneyMarketFund |-> T_f64, mutualFundValue |-> T_f64,
     pendingDeposits |-> T_f64, regTCall |-> T_Option(T_f64),
     shortBalance |-> T_Option(T_f64), shortMarginValue |-> T_Option(T_f64),
     shortOptionMarketValue |-> T_f64, shortStockValue |-> T_f64,
     totalCash |-> T_Option(T_f64), unsettledCash |-> T_Option(T_f64)]

CurrentBalancesFields ==
    [accruedInterest |-> T_f64, availableFunds |-> T_Option(T_f64),
     availableFundsNonMarginableTrade |-> T_Option(T_f64),
     bondValue |-> T_f64, buyingPower |-> T_Option(T_f64),
     buyingPowerNonMarginableTrade |-> T_Option(T_f64),
     cashAvailableForTrading |-> T_Option(T_f64),
     cashAvailableForWithdrawal |-> T_Option(T_f64),
     cashBalance |-> T_f64, cashCall |-> T_Option(T_f64),
     cashDebitCallValue |-> T_Option(T_f64), cashReceipts |-> T_f64,
     dayTradingBuyingPower |-> T_Option(T_f64), equity |-> T_Option(T_f64),
     equityPercentage |-> T_Option(T_f64), liquidationValue |-> T_f64,
     longMarginValue |-> T_Option(T_f64), longMarketValue |-> T_f64,
     longNonMarginableMarketValue |-> T_Option(T_f64),
     longOptionMarketValue |-> T_f64, maintenanceCall |-> T_Option(T_f64),
     maintenanceRequirement |-> T_Option(T_f64),
     marginBalance |-> T_Option(T_f64), moneyMarketFund |-> T_f64,
     mutualFundValue |-> T_f64, pendingDeposits |-> T_f64,
     regTCall |-> T_Option(T_f64), savings |-> T_f64,
     shortBalance |-> T_Option(T_f64), shortMarginValue |-> T_Option(T_f64),
     shortMarketValue |-> T_f64, shortOptionMarketValue |-> T_f64,
     sma |-> T_Option(T_f64), totalCash |-> T_Option(T_f64),
     unsettledCash |-> T_Option(T_f64)]

ProjectedBalancesFields ==
    [availableFunds |-> T_Option(T_f64),
     availableFundsNonMarginableTrade |-> T_Option(T_f64),
     buyingPower |-> T_Option(T_f64),
     cashAvailableForTrading |-> T_Option(T_f64),
     cashAvailableForWithdrawal |-> T_Option(T_f64),
     dayTradingBuyingPower |-> T_Option(T_f64),
     dayTradingBuyingPowerCall |-> T_Option(T_f64),
     isInCall |-> T_Option(T_bool), maintenanceCall |-> T_Option(T_f64),
     regTCall |-> T_Option(T_f64), stockBuyingPower |-> T_Option(T_f64)]

Fields(n) ==
    CASE n = "AccessTokenResponse" -> AccessTokenResponseFields
      [] n = "GetPriceHistoryResponse" -> GetPriceHistoryResponseFields
      [] n = "Candle" -> CandleFields
      [] n = "Mover" -> MoverFields
      [] n = "Account" -> AccountFields
      [] n = "MarginAccount" -> MarginAccountFields
      [] n = "InitialBalances" -> InitialBalancesFields
      [] n = "CurrentBalances" -> CurrentBalancesFields
      [] n = "ProjectedBalances" -> ProjectedBalancesFields

\* the variants of an untagged enum, in declaration order
Variants(n) ==
    CASE n = "SecuritiesAccount" -> <<T_Struct("MarginAccount")>>

---------------------------------------------------------------------------
(* serde_json::from_str into a schema type (the derived Deserialize).      *)

\* a decoder with #[serde(default)] on every field: any field may be absent
MissingFieldOk_Defaulted(fty) == TRUE

\* a key absent from the object: only an Option field may be missing
MissingFieldOk(fty) == fty[1] = "Option"

RECURSIVE ParseOk(_, _)
ParseOk(ty, j) ==
    CASE ty[1] = "String" -> j[1] = "string"
      [] ty[1] = "i64" -> j[1] = "number"
      [] ty[1] = "usize" -> j[1] = "number" /\ j[2] >= 0
      [] ty[1] = "f64" -> j[1] \in {"number", "float"}
      [] ty[1] = "bool" -> j[1] = "bool"
      [] ty[1] = "Option" -> j[1] = "null" \/ ParseOk(ty[2], j)
      [] ty[1] = "Vec" ->
            /\ j[1] = "array"
            /\ \A i \in 1..Len(j[2]) : ParseOk(ty[2], j[2][i])
      [] ty[1] = "struct" ->
            /\ j[1] = "object"
            /\ \A k \in DOMAIN Fields(ty[2]) :
                  IF k \in DOMAIN j[2]
                  THEN ParseOk(Fields(ty[2])[k], j[2][k])
                  ELSE MissingFieldOk(Fields(ty[2])[k])
      [] ty[1] = "untagged" ->
            \E i \in 1..Len(Variants(ty[2])) : ParseOk(Variants(ty[2])[i], j)

\* the value decoded from a JSON value that ParseOk accepts
RECURSIVE ParseVal(_, _)
ParseVal(ty, j) ==
    CASE ty[1] \in {"String", "i64", "usize", "f64", "bool"} -> j[2]
      [] ty[1] = "Option" ->
            IF j[1] = "null" THEN None ELSE Some(ParseVal(ty[2], j))
      [] ty[1] = "Vec" -> [i \in 1..Len(j[2]) |-> ParseVal(ty[2], j[2][i])]
      [] ty[1] = "struct" ->
            [k \in DOMAIN Fields(ty[2]) |->
                IF k \in DOMAIN j[2]
                THEN ParseVal(Fields(ty[2])[k], j[2][k])
                ELSE None]
      [] ty[1] = "untagged" ->
            LET i == CHOOSE n \in 1..Len(Variants(ty[2])) :
                        /\ ParseOk(Variants(ty[2])[n], j)
                        /\ \A m \in 1..(n - 1) : ~ParseOk(Variants(ty[2])[m], j)
            IN  ParseVal(Variants(ty[2])[i], j)

\* serde_json::from_str(&body): Ok(value) or the parse error
from_str(ty, body) ==
    IF body[1] = "json" /\ ParseOk(ty, body[2])
    THEN Ok(ParseVal(ty, body[2]))
    ELSE Err(ParseResponse)

---------------------------------------------------------------------------
(* AccessToken (lib.rs 303-330) *)

\* index of the first space of s, 0 when there is none
FirstSpace(s) ==
    IF \E i \in 1..Len(s) : s[i] = " "
    THEN CHOOSE i \in 1..Len(s) : s[i] = " " /\ \A k \in 1..(i - 1) : s[k] # " "
    ELSE 0

\* a splitter that skips empty pieces, as str::split_whitespace would
RECURSIVE Split_SkipEmpty(_)
Split_SkipEmpty(s) ==
    LET i == FirstSpace(s) IN
    IF i = 0 THEN (IF s = <<>> THEN <<>> ELSE <<s>>)
    ELSE (IF i = 1 THEN <<>> ELSE <<SubSeq(s, 1, i - 1)>>)
         \o Split_SkipEmpty(SubSeq(s, i + 1, Len(s)))

\* response.scope.split(' ').map(|v| v.to_string()).collect()
RECURSIVE Split(_)
Split(s) ==
    LET i == FirstSpace(s) IN
    IF i = 0 THEN <<s>>
    ELSE <<SubSeq(s, 1, i - 1)>> \o Split(SubSeq(s, i + 1, Len(s)))

\* impl From<responses::AccessTokenResponse> for AccessToken, called at time t
From(response, t) ==
    [token |-> response.access_token,
     expires_at |-> t + response.expires_in,
     scope |-> Split(response.scope)]

\* AccessToken::has_expired, called at time t
has_expired(self, t) == self.expires_at >= t

\* #[derive(Serialize)] of AccessToken, through serde_json::to_string
to_string(token) ==
    JsonBody(JObj([expires_at |-> JNum(token.expires_at),
                   scope |-> JArr([i \in 1..Len(token.scope) |-> JStr(token.scope[i])]),
                   token |-> JStr(token.token)]))

---------------------------------------------------------------------------
(* Parameter structs (params.rs) and the query each method builds *)

GetAccountParams_default == [fields |-> None]
GetAccountsParams_default == [fields |-> None]
GetMoversParams_default == [change |-> None, direction |-> None]
GetPriceHistoryParams_default ==
    [end_date |-> None, frequency_type |-> None, frequency |-> None,
     need_extended_hours_data |-> None, period_type |-> None, period |-> None,
     start_date |-> None]

\* bool::to_string
bool_to_string(b) == IF b THEN "true" ELSE "false"

\* if let Some(v) = field { request.query(name, &v); }
query(name, field) == IF field = None THEN <<>> ELSE <<<<name, field[1]>>>>

\* lib.rs 172-174
AccountQuery(params) == query("fields", params.fields)

\* lib.rs 201-203
AccountsQuery(params) == query("fields", params.fields)

\* lib.rs 230-236
MoversQuery(params) ==
    query("direction", params.direction) \o query("change", params.change)

\* a builder that sends the internal field names instead of the wire names
PriceHistoryQuery_FieldNames(params) ==
    query("period_type", params.period_type)
    \o query("period", params.period)
    \o query("frequency_type", params.frequency_type)
    \o query("frequency", params.frequency)
    \o query("end_date", params.end_date)
    \o query("start_date", params.start_date)
    \o (IF params.need_extended_hours_data = None THEN <<>>
        ELSE <<<<"need_extended_hours_data",
                 bool_to_string(params.need_extended_hours_data[1])>>>>)

\* lib.rs 263-289
PriceHistoryQuery(params) ==
    query("periodType", params.period_type)
    \o query("period", params.period)
    \o query("frequencyType", params.frequency_type)
    \o query("frequency", params.frequency)
    \o query("endDate", params.end_date)
    \o query("startDate", params.start_date)
    \o (IF params.need_extended_hours_data = None THEN <<>>
        ELSE <<<<"needExtendedHoursData",
                 bool_to_string(params.need_extended_hours_data[1])>>>>)

---------------------------------------------------------------------------
(* The HTTP exchange.  A request that is sent comes back as a Response     *)
(* object, also when the transport fails: call() and send_form() return a  *)
(* Response, never an error, and a failed transport yields a synthetic     *)
(* response whose status is an error status and whose body is the error    *)
(* text.  readable is whether into_string() can read the body.             *)

TDA_API_BASE == "https://api.tdameritrade.com/v1"

HttpOk == 200

\* a status check that lets every 2xx status through
StatusOk_Any2xx(status) == status \in 200..299

\* status != 200 is the error branch
StatusOk(status) == status = HttpOk

\* the status tested before the body is read
read_response_StatusFirst(ty, response) ==
    IF ~StatusOk(response.status)
    THEN Err(NotHttpOk(response.status, response.body))
    ELSE IF ~response.readable THEN Err(ReadResponse)
         ELSE from_str(ty, response.body)

\* lib.rs 148-155, 177-184 (the same five lines in every method)
read_response(ty, response) ==
    IF ~response.readable THEN Err(ReadResponse)
    ELSE IF ~StatusOk(response.status)
         THEN Err(NotHttpOk(response.status, response.body))
         ELSE from_str(ty, response.body)

Bearer(token) == <<"Authorization", "Bearer " \o token.token>>

NoTokenSet == Panic("Client does not have a token set!")

---------------------------------------------------------------------------
(* The Client's methods (lib.rs 121-301).  Each takes the Client (self),   *)
(* its arguments and the Response the transport hands back, and yields the *)
(* Client afterwards, the requests it sent and its outcome: Ok(value),     *)
(* Err(ClientError) or a panic.                                            *)

\* Client::new
new(cid, rt, token) ==
    [access_token |-> token, client_id |-> cid, refresh_token |-> rt]

\* a setter that keeps the installed token when it is given None
set_access_token_KeepOnNone(self, token) ==
    IF token = None THEN self ELSE [self EXCEPT !.access_token = token]

\* Client::set_access_token
set_access_token(self, token) == [self EXCEPT !.access_token = token]

\* a form with the two credentials in each other's field
TokenRequest_Swapped(self) ==
    [method |-> "POST",
     url |-> TDA_API_BASE \o "/oauth2/token",
     headers |-> <<>>,
     query |-> <<>>,
     form |-> << <<"grant_type", "refresh_token">>,
                 <<"refresh_token", self.client_id>>,
                 <<"client_id", self.refresh_token>> >>]

\* the form of the refresh request (lib.rs 140-147)
TokenRequest(self) ==
    [method |-> "POST",
     url |-> TDA_API_BASE \o "/oauth2/token",
     headers |-> <<>>,
     query |-> <<>>,
     form |-> << <<"grant_type", "refresh_token">>,
                 <<"refresh_token", self.refresh_token>>,
                 <<"client_id", self.client_id>> >>]

\* a refresh that installs the token it fetched
get_access_token_Installing(self, response, t) ==
    LET outcome == read_response(T_Struct("AccessTokenResponse"), response) IN
    [self |-> IF outcome[1] = "Ok"
              THEN [self EXCEPT !.access_token = Some(From(outcome[2], t))]
              ELSE self,
     requests |-> <<TokenRequest(self)>>,
     outcome |-> outcome]

\* Client::get_access_token (&self), called at time t
get_access_token(self, response, t) ==
    [self |-> self,
     requests |-> <<TokenRequest(self)>>,
     outcome |-> read_response(T_Struct("AccessTokenResponse"), response)]

GetRequest(token, url, q) ==
    [method |-> "GET", url |-> url, headers |-> <<Bearer(token)>>,
     query |-> q, form |-> <<>>]

\* a get_account that reports the missing token as an error value
get_account_Unguarded(self, account_id, params, response) ==
    IF self.access_token = None
    THEN [self |-> self, requests |-> <<>>,
          outcome |-> Err(NotHttpOk(0, RawBody("no token")))]
    ELSE [self |-> self,
          requests |-> <<GetRequest(self.access_token[1],
                                    TDA_API_BASE \o "/accounts/" \o account_id,
                                    AccountQuery(params))>>,
          outcome |-> read_response(T_Struct("Account"), response)]

\* Client::get_account
get_account(self, account_id, params, response) ==
    IF self.access_token = None
    THEN [self |-> self, requests |-> <<>>, outcome |-> NoTokenSet]
    ELSE [self |-> self,
          requests |-> <<GetRequest(self.access_token[1],
                                    TDA_API_BASE \o "/accounts/" \o account_id,
                                    AccountQuery(params))>>,
          outcome |-> read_response(T_Struct("Account"), response)]

\* Client::get_accounts
get_accounts(self, params, response) ==
    IF self.access_token = None
    THEN [self |-> self, requests |-> <<>>, outcome |-> NoTokenSet]
    ELSE [self |-> self,
          requests |-> <<GetRequest(self.access_token[1],
                                    TDA_API_BASE \o "/accounts",
                                    AccountsQuery(params))>>,
          outcome |-> read_response(T_Vec(T_Struct("Account")), response)]

\* a get_movers that sends its request again when the first attempt fails
get_movers_Retrying(self, index, params, response) ==
    IF self.access_token = None
    THEN [self |-> self, requests |-> <<>>, outcome |-> NoTokenSet]
    ELSE LET request == GetRequest(self.access_token[1],
                                   TDA_API_BASE \o "/marketdata/" \o index \o "/movers",
                                   MoversQuery(params))
             outcome == read_response(T_Vec(T_Struct("Mover")), response)
         IN  [self |-> self,
              requests |-> IF outcome[1] = "Err" THEN <<request, request>>
                           ELSE <<request>>,
              outcome |-> outcome]

\* Client::get_movers
get_movers(self, index, params, response) ==
    IF self.access_token = None
    THEN [self |-> self, requests |-> <<>>, outcome |-> NoTokenSet]
    ELSE [self |-> self,
          requests |-> <<GetRequest(self.access_token[1],
                                    TDA_API_BASE \o "/marketdata/" \o index \o "/movers",
                                    MoversQuery(params))>>,
          outcome |-> read_response(T_Vec(T_Struct("Mover")), response)]

\* Client::get_price_history
get_price_history(self, symbol, params, response) ==
    IF self.access_token = None
    THEN [self |-> self, requests |-> <<>>, outcome |-> NoTokenSet]
    ELSE [self |-> self,
          requests |-> <<GetRequest(self.access_token[1],
                                    TDA_API_BASE \o "/marketdata/" \o symbol \o "/pricehistory",
                                    PriceHistoryQuery(params))>>,
          outcome |-> read_response(T_Struct("GetPriceHistoryResponse"), response)]

---------------------------------------------------------------------------
(* The token file helpers of the test module (lib.rs 404-418) *)

\* tests::save_token: the new contents of the file
save_token(token) == Some(to_string(token))

\* tests::load_token: the AccessTokenResponse read back, or the panic of an
\* unwrap() (no file, or contents that do not decode)
load_token(f) ==
    IF f = None THEN Panic("read_to_string")
    ELSE LET parsed == from_str(T_Struct("AccessTokenResponse"), f[1]) IN
         IF parsed[1] = "Ok" THEN parsed ELSE Panic("from_str")

---------------------------------------------------------------------------
(* Inputs: the arguments callers pass and the responses the API returns *)

Opt(S) == {None} \cup {Some(x) : x \in S}

ClientIds == {"CID1", "CID2"}
RefreshTokens == {"RT1"}

\* the token of the crate documentation (lib.rs 35-39)
OldToken == [expires_at |-> 0, token |-> "YOUR_TOKEN_STRING", scope |-> <<>>]

AccountIds == {"ID1"}
Indexes == {"$DJI"}
Symbols == {"AAPL"}

\* a JSON value of the given type with every field present
RECURSIVE Sample(_)
Sample(ty) ==
    CASE ty[1] = "String" -> JStr("s")
      [] ty[1] \in {"i64", "usize"} -> JNum(1)
      [] ty[1] = "f64" -> JFloat(1)
      [] ty[1] = "bool" -> JBool(TRUE)
      [] ty[1] = "Option" -> Sample(ty[2])
      [] ty[1] = "Vec" -> JArr(<<Sample(ty[2])>>)
      [] ty[1] = "struct" ->
            JObj([k \in DOMAIN Fields(ty[2]) |-> Sample(Fields(ty[2])[k])])
      [] ty[1] = "untagged" -> Sample(Variants(ty[2])[1])

\* a JSON value of the given type with every Option field left out
RECURSIVE SampleMin(_)
SampleMin(ty) ==
    CASE ty[1] = "struct" ->
            JObj([k \in {x \in DOMAIN Fields(ty[2]) : Fields(ty[2])[x][1] # "Option"}
                    |-> SampleMin(Fields(ty[2])[k])])
      [] ty[1] = "Vec" -> JArr(<<SampleMin(ty[2])>>)
      [] ty[1] = "untagged" -> SampleMin(Variants(ty[2])[1])
      [] OTHER -> Sample(ty)

\* the object j without key k, and with key k set to v
Drop(j, k) == JObj([x \in (DOMAIN j[2]) \ {k} |-> j[2][x]])
With(j, k, v) == JObj([x \in (DOMAIN j[2]) \cup {k} |-> IF x = k THEN v ELSE j[2][x]])

ErrorBody == JsonBody(JObj([error |-> JStr("invalid_grant")]))
TextBody == RawBody("Bad Gateway")
TruncatedBody == RawBody("truncated")

GoodToken ==
    JObj([access_token |-> JStr("T1"), scope |-> JStr(<<"a", " ", "b">>),
          expires_in |-> JNum(1)])

GoodPrices == Sample(T_Struct("GetPriceHistoryResponse"))
GoodAccount == Sample(T_Struct("Account"))
GoodMover == Sample(T_Struct("Mover"))

\* an account whose securitiesAccount is not a margin account
OtherAccount ==
    With(GoodAccount, "securitiesAccount",
         Drop(GoodAccount[2].securitiesAccount, "initialBalances"))

\* the bodies the API may return for each method
Bodies(op) ==
    CASE op = "get_access_token" ->
            {JsonBody(GoodToken),
             JsonBody(Drop(GoodToken, "expires_in")),
             JsonBody(With(GoodToken, "scope", JArr(<<JStr(<<"a">>)>>))),
             ErrorBody, TextBody}
      [] op = "get_account" ->
            {JsonBody(GoodAccount),
             JsonBody(SampleMin(T_Struct("Account"))),
             JsonBody(OtherAccount),
             JsonBody(With(GoodAccount, "extra", JNull)),
             ErrorBody, TextBody}
      [] op = "get_accounts" ->
            {JsonBody(JArr(<<>>)),
             JsonBody(JArr(<<GoodAccount>>)),
             JsonBody(JArr(<<GoodAccount, OtherAccount>>)),
             JsonBody(GoodAccount),
             ErrorBody, TextBody}
      [] op = "get_movers" ->
            {JsonBody(JArr(<<>>)),
             JsonBody(JArr(<<GoodMover>>)),
             JsonBody(JArr(<<Drop(GoodMover, "totalVolume")>>)),
             JsonBody(JArr(<<With(GoodMover, "totalVolume", JFloat(1))>>)),
             ErrorBody, TextBody}
      [] op = "get_price_history" ->
            {JsonBody(GoodPrices),
             JsonBody(Drop(GoodPrices, "symbol")),
             JsonBody(With(GoodPrices, "candles", JArr(<<>>))),
             JsonBody(With(GoodPrices, "empty", JStr("no"))),
             ErrorBody, TextBody}

\* the statuses the API may return
Statuses == {HttpOk, 201, 401}

\* the synthetic response of a failed transport: its status and error text
SyntheticErrors == {<<400, "Dns Failed">>, <<500, "Connection Failed">>}

\* the Response objects call() / send_form() may hand back: a response of
\* the API whose body can be read, one whose body cannot be read, or the
\* synthetic response of a transport failure
Responses(op) ==
    {[status |-> st, body |-> b, readable |-> TRUE, synthetic |-> FALSE] :
        st \in Statuses, b \in Bodies(op)}
    \cup {[status |-> st, body |-> TruncatedBody, readable |-> FALSE,
           synthetic |-> FALSE] : st \in Statuses}
    \cup {[status |-> e[1], body |-> RawBody(e[2]),
           readable |-> TRUE, synthetic |-> TRUE] : e \in SyntheticErrors}

TokenEndpointResponses == Responses("get_access_token")
AccountResponses == Responses("get_account")
AccountsResponses == Responses("get_accounts")
MoversResponses == Responses("get_movers")
PriceHistoryResponses == Responses("get_price_history")

---------------------------------------------------------------------------
(* Actions *)

Record(op, input, requests, response, outcome) ==
    [op |-> op, input |-> input, requests |-> requests,
     response |-> IF requests = <<>> THEN None ELSE Some(response),
     outcome |-> outcome, at |-> now]

Done == Ok(<<>>)

\* let client = Client::new(cid, rt, token)
ClientNew(cid, rt, token) ==
    /\ client' = new(cid, rt, token)
    /\ last' = Record("new", <<cid, rt, token>>, <<>>, None, Done)
    /\ UNCHANGED <<now, held, file>>

\* client.set_access_token(&token)
SetAccessToken(token) ==
    /\ client' = set_access_token(client, token)
    /\ last' = Record("set_access_token", <<token>>, <<>>, None, Done)
    /\ UNCHANGED <<now, held, file>>

\* the effect of a method call whose result is r
Call(op, input, response, r) ==
    /\ client' = r.self
    /\ last' = Record(op, input, r.requests, response, r.outcome)
    /\ UNCHANGED <<now, held, file>>

GetAccessToken(response) ==
    Call("get_access_token", <<>>, response,
         get_access_token(client, response, now))

GetAccount(account_id, params, response) ==
    Call("get_account", <<account_id, params>>, response,
         get_account(client, account_id, params, response))

GetAccounts(params, response) ==
    Call("get_accounts", <<params>>, response,
         get_accounts(client, params, response))

GetMovers(index, params, response) ==
    Call("get_movers", <<index, params>>, response,
         get_movers(client, index, params, response))

GetPriceHistory(symbol, params, response) ==
    Call("get_price_history", <<symbol, params>>, response,
         get_price_history(client, symbol, params, response))

\* let token: AccessToken = response.into()
Into(response) ==
    /\ held' = Some(From(response, now))
    /\ last' = Record("into", <<response>>, <<>>, None, Done)
    /\ UNCHANGED <<client, now, file>>

\* the caller has an AccessTokenResponse (a pub struct) in hand
HaveResponse(response) ==
    [op |-> "response", input |-> <<>>, requests |-> <<>>, response |-> None,
     outcome |-> Ok(response), at |-> 0]

\* the caller has filled in a parameter struct for the method op
HaveParams(op, params) ==
    [op |-> "params", input |-> <<op, params>>, requests |-> <<>>,
     response |-> None, outcome |-> Done, at |-> 0]

\* client.get_access_token().unwrap().into(), the conversion of the
\* response in hand
IntoLast ==
    /\ last.op \in {"get_access_token", "response"}
    /\ last.outcome[1] = "Ok"
    /\ Into(last.outcome[2])

\* token.has_expired()
HasExpired ==
    /\ held # None
    /\ last' = Record("has_expired", <<held[1]>>, <<>>, None,
                      Ok(has_expired(held[1], now)))
    /\ UNCHANGED <<client, now, held, file>>

\* save_token(&token)
SaveToken ==
    /\ held # None
    /\ file' = save_token(held[1])
    /\ last' = Record("save_token", <<held[1]>>, <<>>, None, Done)
    /\ UNCHANGED <<client, now, held>>

\* let token: AccessToken = load_token().into()
LoadToken ==
    LET loaded == load_token(file) IN
    /\ held' = IF loaded[1] = "Ok" THEN Some(From(loaded[2], now)) ELSE held
    /\ last' = Record("load_token", <<file>>, <<>>, None, loaded)
    /\ UNCHANGED <<client, now, file>>

\* time passes
Tick(limit) ==
    /\ now + TickStep <= limit
    /\ now' = now + TickStep
    /\ UNCHANGED <<client, held, file, last>>

---------------------------------------------------------------------------
(* The client specification: a caller using one Client *)

AccountParams == {GetAccountParams_default, [fields |-> Some("positions")]}
AccountsParams == {GetAccountsParams_default, [fields |-> Some("orders")]}
MoversParams ==
    {GetMoversParams_default,
     [change |-> Some("percent"), direction |-> Some("up")]}
PriceHistoryParams ==
    {GetPriceHistoryParams_default,
     [GetPriceHistoryParams_default EXCEPT
        !.period_type = Some("day"), !.need_extended_hours_data = Some(FALSE)]}

Init ==
    /\ client \in {new(cid, rt, token) :
                    cid \in ClientIds, rt \in RefreshTokens,
                    token \in {None, Some(OldToken)}}
    /\ now = 0
    /\ held = None
    /\ file = None
    /\ last = [op |-> "new",
               input |-> <<client.client_id, client.refresh_token,
                           client.access_token>>,
               requests |-> <<>>, response |-> None, outcome |-> Done,
               at |-> 0]

Next ==
    \/ \E cid \in ClientIds, rt \in RefreshTokens,
          token \in {None, Some(OldToken), held} : ClientNew(cid, rt, token)
    \/ \E token \in {None, Some(OldToken), held} : SetAccessToken(token)
    \/ \E response \in TokenEndpointResponses : GetAccessToken(response)
    \/ \E account_id \in AccountIds, params \in AccountParams,
          response \in AccountResponses :
            GetAccount(account_id, params, response)
    \/ \E params \in AccountsParams, response \in AccountsResponses :
            GetAccounts(params, response)
    \/ \E index \in Indexes, params \in MoversParams,
          response \in MoversResponses :
            GetMovers(index, params, response)
    \/ \E symbol \in Symbols, params \in PriceHistoryParams,
          response \in PriceHistoryResponses :
            GetPriceHistory(symbol, params, response)
    \/ IntoLast
    \/ Tick(MaxNow)

Spec == Init /\ [][Next]_vars

---------------------------------------------------------------------------
(* The token specification: AccessToken conversion and expiry check over   *)
(* every token-exchange response within the bounds                         *)

ScopeChars == {"a", " "}
ScopeStrings == UNION {[1..n -> ScopeChars] : n \in 0..MaxScopeLen}

TokenResponses ==
    [access_token : {"T1"}, scope : ScopeStrings, expires_in : 0..MaxLifetime]

FixedClient == new("CID1", "RT1", Some(OldToken))

InitFixed ==
    /\ client = FixedClient
    /\ now = 0
    /\ file = None

NewFixed ==
    [op |-> "new", input |-> <<"CID1", "RT1", Some(OldToken)>>,
     requests |-> <<>>, response |-> None, outcome |-> Done, at |-> 0]

InitToken ==
    /\ InitFixed
    /\ held = None
    /\ last \in {HaveResponse(response) : response \in TokenResponses}

NextToken ==
    \/ IntoLast
    \/ HasExpired
    \/ Tick(MaxTokNow)

SpecToken == InitToken /\ [][NextToken]_vars

---------------------------------------------------------------------------
(* The persistence specification: the token file helpers applied to a      *)
(* token the caller holds                                                  *)

HeldTokens ==
    {From(response, t) : response \in
        [access_token : {"T1", "T2"}, scope : {<<>>, <<"a">>, <<"a", " ", "b">>},
         expires_in : 0..MaxLifetime],
     t \in {0, TickStep}}

InitPersist == InitFixed /\ held \in Opt(HeldTokens) /\ last = NewFixed

NextPersist ==
    \/ SaveToken
    \/ LoadToken
    \/ Tick(MaxNow)

SpecPersist == InitPersist /\ [][NextPersist]_vars

---------------------------------------------------------------------------
(* The parameter specification: each method called with every value of its *)
(* parameter struct within the bounds, the API answering 200               *)

ParamStrings == {"", "x"}

AllAccountParams == [fields : Opt(ParamStrings)]
AllAccountsParams == [fields : Opt(ParamStrings)]
AllMoversParams == [change : Opt(ParamStrings), direction : Opt(ParamStrings)]
AllPriceHistoryParams ==
    [end_date : Opt(ParamStrings), frequency_type : Opt(ParamStrings),
     frequency : Opt(ParamStrings), need_extended_hours_data : Opt(BOOLEAN),
     period_type : Opt(ParamStrings), period : Opt(ParamStrings),
     start_date : Opt(ParamStrings)]

OkResponse(body) ==
    [status |-> HttpOk, body |-> body, readable |-> TRUE, synthetic |-> FALSE]

InitParams ==
    /\ InitFixed
    /\ held = None
    /\ last \in {HaveParams("get_account", p) : p \in AllAccountParams}
              \cup {HaveParams("get_accounts", p) : p \in AllAccountsParams}
              \cup {HaveParams("get_movers", p) : p \in AllMoversParams}
              \cup {HaveParams("get_price_history", p) : p \in AllPriceHistoryParams}

\* the call the caller filled the parameter struct in for
Pending(op) == last.op = "params" /\ last.input[1] = op

NextParams ==
    \/ /\ Pending("get_account")
       /\ GetAccount("ID1", last.input[2], OkResponse(JsonBody(GoodAccount)))
    \/ /\ Pending("get_accounts")
       /\ GetAccounts(last.input[2], OkResponse(JsonBody(JArr(<<GoodAccount>>))))
    \/ /\ Pending("get_movers")
       /\ GetMovers("$DJI", last.input[2], OkResponse(JsonBody(JArr(<<GoodMover>>))))
    \/ /\ Pending("get_price_history")
       /\ GetPriceHistory("AAPL", last.input[2], OkResponse(JsonBody(GoodPrices)))

SpecParams == InitParams /\ [][NextParams]_vars

---------------------------------------------------------------------------
(* Claims *)

AuthOps == {"get_account", "get_accounts", "get_movers", "get_price_history"}
EndpointOps == AuthOps \cup {"get_access_token"}

\* the most recent operation was an endpoint call that obtained a response
GotResponse == last.op \in EndpointOps /\ last.response # None

\* C1: the AccessToken built from a token-exchange response at time t has
\* expires_at = t + expires_in * 1000 (seconds converted to milliseconds).
C1_ExpiresAtMillis ==
    last.op = "into" =>
        held[1].expires_at = last.at + last.input[1].expires_in * 1000

\* C2: has_expired is false while the expiry is still in the future (as it
\* is right after construction with a positive lifetime) and true once the
\* clock has passed expires_at.
C2_HasExpired ==
    last.op = "has_expired" =>
        /\ last.input[1].expires_at > last.at => last.outcome = Ok(FALSE)
        /\ last.at > last.input[1].expires_at => last.outcome = Ok(TRUE)

\* C3: an authenticated method called with an empty token slot panics and
\* sends no request; with a token in the slot it does not panic and sends
\* its one request.
C3_PanicWithoutToken ==
    last.op \in AuthOps =>
        IF client.access_token = None
        THEN /\ last.outcome[1] = "panic"
             /\ last.requests = <<>>
             /\ last.response = None
        ELSE /\ last.outcome[1] # "panic"
             /\ Len(last.requests) = 1
             /\ last.response # None

C3_Witness ==
    /\ last.op = "get_account"
    /\ client.access_token = None
    /\ last.outcome = NoTokenSet

\* C4 as stated: every response whose status is not 200 yields NotHttpOk
\* with that status and the response body.
C4_NotHttpOkAlways ==
    (GotResponse /\ last.response[1].status # 200) =>
        last.outcome = Err(NotHttpOk(last.response[1].status,
                                     last.response[1].body))

\* C4 as amended: a response whose status is not 200 and whose body can be
\* read yields NotHttpOk with exactly that status and body, whatever the
\* body is; when the body cannot be read the call yields ReadResponse.
C4_NotHttpOkWhenRead ==
    (GotResponse /\ last.response[1].status # 200) =>
        IF last.response[1].readable
        THEN last.outcome = Err(NotHttpOk(last.response[1].status,
                                          last.response[1].body))
        ELSE last.outcome = Err(ReadResponse)

C4_Witness ==
    /\ last.op = "get_price_history"
    /\ last.response = Some([status |-> 401, body |-> JsonBody(GoodPrices),
                             readable |-> TRUE, synthetic |-> FALSE])
    /\ last.outcome = Err(NotHttpOk(401, JsonBody(GoodPrices)))

\* bodies that do not match the schema of each method: a required field
\* missing, an account that is no margin account, an error object, text
Malformed(op) ==
    {ErrorBody, TextBody} \cup
    (CASE op = "get_access_token" -> {JsonBody(Drop(GoodToken, "expires_in"))}
       [] op = "get_account" -> {JsonBody(OtherAccount)}
       [] op = "get_accounts" -> {JsonBody(JArr(<<GoodAccount, OtherAccount>>))}
       [] op = "get_movers" -> {JsonBody(JArr(<<Drop(GoodMover, "totalVolume")>>))}
       [] op = "get_price_history" -> {JsonBody(Drop(GoodPrices, "symbol"))})

\* the required top-level keys of the methods that decode one object
RequiredKeys(op) ==
    CASE op = "get_access_token" -> {"access_token", "scope", "expires_in"}
      [] op = "get_account" -> {"securitiesAccount"}
      [] op = "get_price_history" -> {"candles", "empty", "symbol"}
      [] OTHER -> {}

\* C5: a 200 response whose body (as read) does not match the schema yields
\* ParseResponse, never a panic; and no call returns Ok for a body that
\* lacks a required field.
C5_ParseResponse ==
    (GotResponse /\ last.response[1].status = 200 /\ last.response[1].readable) =>
        /\ last.response[1].body \in Malformed(last.op) =>
                last.outcome = Err(ParseResponse)
        /\ (last.outcome[1] = "Ok" /\ RequiredKeys(last.op) # {}) =>
                /\ last.response[1].body[1] = "json"
                /\ last.response[1].body[2][1] = "object"
                /\ RequiredKeys(last.op) \subseteq DOMAIN last.response[1].body[2][2]

C5_Witness ==
    /\ last.op = "get_price_history"
    /\ last.response # None
    /\ last.response[1].status = 200
    /\ last.response[1].body = JsonBody(Drop(GoodPrices, "symbol"))
    /\ last.outcome = Err(ParseResponse)

\* C6: a transport failure surfaces as an error that is neither NotHttpOk
\* nor ParseResponse.
C6_TransportDistinct ==
    (GotResponse /\ last.response[1].synthetic) =>
        /\ last.outcome[1] = "Err"
        /\ last.outcome[2][1] \notin {"NotHttpOk", "ParseResponse"}

\* C7: loading the file save_token wrote and converting it gives back the
\* saved token: same token string, expires_at and scope list.
C7_RoundTrip ==
    (last.op = "load_token" /\ file # None) =>
        /\ last.outcome[1] = "Ok"
        /\ held # None
        /\ to_string(held[1]) = file[1]

\* the wire name of each parameter field
WireName ==
    [fields |-> "fields", direction |-> "direction", change |-> "change",
     period_type |-> "periodType", period |-> "period",
     frequency_type |-> "frequencyType", frequency |-> "frequency",
     end_date |-> "endDate", start_date |-> "startDate",
     need_extended_hours_data |-> "needExtendedHoursData"]

\* the value a present field is sent as
Rendered(f, v) ==
    IF f = "need_extended_hours_data"
    THEN (IF v THEN "true" ELSE "false")
    ELSE v

RECURSIVE Join(_)
Join(pieces) ==
    IF Len(pieces) = 1 THEN pieces[1]
    ELSE pieces[1] \o <<" ">> \o Join(Tail(pieces))

\* C9: the scope list is the scope string split at every space, in order,
\* empty pieces kept: joining it with single spaces gives the string back,
\* no piece holds a space, an empty string gives one empty piece.
C9_Scope ==
    last.op = "into" =>
        LET s == last.input[1].scope
            v == held[1].scope
        IN  /\ Len(v) = 1 + Cardinality({i \in 1..Len(s) : s[i] = " "})
            /\ \A i \in 1..Len(v) : \A k \in 1..Len(v[i]) : v[i][k] # " "
            /\ Join(v) = s
            /\ s = <<>> => v = << <<>> >>
            /\ s = <<"a", " ", "a", " ", "a">> => v = << <<"a">>, <<"a">>, <<"a">> >>

C9_Witness ==
    /\ last.op = "into"
    /\ last.input[1].scope = <<"a", " ", " ", "a", " ">>
    /\ held[1].scope = << <<"a">>, <<>>, <<"a">>, <<>> >>

\* C10: no endpoint method changes the token slot, whatever its outcome.
C10_SlotFrame ==
    [][last'.op \in EndpointOps => client'.access_token = client.access_token]_vars

C10_Witness ==
    /\ last.op = "get_access_token"
    /\ last.outcome[1] = "Ok"
    /\ client.access_token = Some(OldToken)

\* C11: Client::new and set_access_token leave the slot holding exactly the
\* value they were given (None empties it), and an authenticated request
\* carries Authorization: Bearer <token> with the token string of the
\* AccessToken in the slot when the call was made; no other operation writes
\* the slot, so that token is the one installed last.
C11_LatestToken ==
    [][/\ last'.op = "new" => client'.access_token = last'.input[3]
       /\ last'.op = "set_access_token" => client'.access_token = last'.input[1]
       /\ (last'.op \in AuthOps /\ last'.requests # <<>>) =>
            /\ client.access_token # None
            /\ last'.requests[1].headers =
                  << <<"Authorization", "Bearer " \o client.access_token[1].token>> >>
       /\ last'.op \notin {"new", "set_access_token"} =>
            client'.access_token = client.access_token]_vars

\* a request sent with the fetched token T1 after it replaced the old token
C11_Witness ==
    /\ last.op = "get_accounts"
    /\ held # None
    /\ client.access_token = held
    /\ Len(last.requests) = 1
    /\ last.requests[1].headers = << <<"Authorization", "Bearer T1">> >>

\* C12: a call of an endpoint method sends at most one request, and exactly
\* one unless it panics before sending, whatever the outcome: success,
\* NotHttpOk, ParseResponse or ReadResponse.
C12_NoRetry ==
    last.op \in EndpointOps =>
        /\ Len(last.requests) <= 1
        /\ last.outcome[1] \in {"Ok", "Err"} => Len(last.requests) = 1
        /\ last.outcome[1] = "panic" => last.requests = <<>>

C12_Witness ==
    /\ last.op = "get_movers"
    /\ last.outcome = Err(NotHttpOk(401, ErrorBody))
    /\ Len(last.requests) = 1

\* C13: client_id and refresh_token are the values given to Client::new and
\* no other operation changes them; the refresh request sends exactly the
\* form fields grant_type=refresh_token, refresh_token and client_id, the
\* last two with the Client's values.
C13_Credentials ==
    [][/\ last'.op = "new" =>
            /\ client'.client_id = last'.input[1]
            /\ client'.refresh_token = last'.input[2]
       /\ last'.op # "new" =>
            /\ client'.client_id = client.client_id
            /\ client'.refresh_token = client.refresh_token
       /\ last'.op = "get_access_token" =>
            /\ Len(last'.requests) = 1
            /\ Len(last'.requests[1].form) = 3
            /\ {last'.requests[1].form[i] : i \in 1..3} =
                  {<<"grant_type", "refresh_token">>,
                   <<"refresh_token", client.refresh_token>>,
                   <<"client_id", client.client_id>>}]_vars

\* a refresh by a Client made with the second client id, a token installed
C13_Witness ==
    /\ last.op = "get_access_token"
    /\ client.client_id = "CID2"
    /\ client.access_token # None
    /\ \E i \in 1..3 : last.requests[1].form[i] = <<"client_id", "CID2">>
    /\ \E i \in 1..3 : last.requests[1].form[i] = <<"refresh_token", "RT1">>

\* C14: a call that obtained a response has exactly one outcome, decided in
\* this order: the body cannot be read -> ReadResponse, whatever the status;
\* else status not 200 -> NotHttpOk; else the body is parsed -> Ok or
\* ParseResponse.  So Ok needs status 200 and a body that parses, and a
\* non-200 response never ends in Ok or ParseResponse.
C14_OutcomeOrder ==
    GotResponse =>
        LET response == last.response[1]
            kind == IF last.outcome[1] = "Err" THEN last.outcome[2][1]
                    ELSE last.outcome[1]
        IN  /\ ~response.readable => kind = "ReadResponse"
            /\ (response.readable /\ response.status # 200) => kind = "NotHttpOk"
            /\ (response.readable /\ response.status = 200) =>
                    kind \in {"Ok", "ParseResponse"}
            /\ kind = "Ok" =>
                    /\ response.status = 200
                    /\ response.readable
                    /\ response.body \notin Malformed(last.op)
            /\ response.status # 200 => kind \notin {"Ok", "ParseResponse"}

\* a non-200 response whose body cannot be read
C14_Witness ==
    /\ last.op = "get_account"
    /\ last.response # None
    /\ last.response[1].status = 401
    /\ ~last.response[1].readable
    /\ last.outcome = Err(ReadResponse)

===========================================================================
